---- MODULE Spec2Model ----
(***************************************************************************)
(* Journalist directory (app.py, create_db.py): the journalists table, the *)
(* cached full scan, the search, the add-interest mutation, the            *)
(* journalist/subject graph and the CSV import.                            *)
(*                                                                         *)
(* Text is modelled as a sequence of one-character strings, so that        *)
(* split(','), strip(), lower() and replace('.', '') are computed the way  *)
(* Python computes them.                                                   *)
(***************************************************************************)
EXTENDS Integers, Sequences, FiniteSets, TLC

VARIABLES
    db,        \* journalists table: rowid -> row
    cache,     \* st.cache_data entry of get_all_journalists (full, data)
    lastOp,    \* the handler that ran last, its arguments and its outcome
    result,    \* the DataFrame the last scan / search returned
    pending,   \* kinds of read not yet issued since the last committed UPDATE
    lastWrite, \* the last committed UPDATE: rowid, value, was the cache filled
    pc,        \* per session: position inside add_interest_to_journalist
    sess,      \* per session: the (rowid, new_interest) arguments
    cur,       \* per session: current_interests fetched by the SELECT
    lock,      \* session holding SQLite's write lock, or NoSession
    db0,       \* table at the start of the concurrent run
    subjIn,    \* a subjects string handed to the tag clean-up
    tagsOut,   \* the cleaned tags of subjIn, once computed
    df,        \* DataFrame handed to generate_network_visualization
    net,       \* the pyvis Network built from df, once built
    csv,       \* the CSV source of the import: exists, columns, raw lines
    imported   \* outcome of create_database_from_csv

vars == <<db, cache, lastOp, result, pending, lastWrite, pc, sess, cur, lock, db0,
          subjIn, tagsOut, df, net, csv, imported>>

appVars   == <<db, cache, lastOp, result, pending, lastWrite>>
concVars  == <<pc, sess, cur, lock, db0>>
parseVars == <<subjIn, tagsOut>>
graphVars == <<df, net>>
impVars   == <<csv, imported>>

(***************************************************************************)
(* Text primitives                                                         *)
(***************************************************************************)

StringsUpTo(S, n) == UNION {[1..k -> S] : k \in 0..n}

\* str.lower() on the letters of the model
LowerChar(c) ==
    CASE c = "P" -> "p"
      [] c = "E" -> "e"
      [] c = "M" -> "m"
      [] c = "K" -> "k"
      [] c = "A" -> "a"
      [] c = "B" -> "b"
      [] OTHER -> c

Lower(s) == [i \in 1..Len(s) |-> LowerChar(s[i])]

RECURSIVE LStrip(_)
LStrip(s) == IF s # <<>> /\ Head(s) = " " THEN LStrip(Tail(s)) ELSE s

RECURSIVE RStrip(_)
RStrip(s) ==
    IF s # <<>> /\ s[Len(s)] = " " THEN RStrip(SubSeq(s, 1, Len(s) - 1)) ELSE s

\* str.strip()
Strip(s) == RStrip(LStrip(s))

\* str.replace('.', '')
RECURSIVE RemovePeriods(_)
RemovePeriods(s) ==
    IF s = <<>> THEN <<>>
    ELSE IF Head(s) = "." THEN RemovePeriods(Tail(s))
    ELSE <<Head(s)>> \o RemovePeriods(Tail(s))

\* str.split(','): always at least one segment, empty segments are kept
RECURSIVE SplitFrom(_, _)
SplitFrom(s, seg) ==
    IF s = <<>> THEN <<seg>>
    ELSE IF Head(s) = "," THEN <<seg>> \o SplitFrom(Tail(s), <<>>)
    ELSE SplitFrom(Tail(s), Append(seg, Head(s)))

Split(s) == SplitFrom(s, <<>>)

\* needle in hay (substring)
Contains(hay, needle) ==
    \E i \in 0..(Len(hay) - Len(needle)) :
        SubSeq(hay, i + 1, i + Len(needle)) = needle

Range(f) == {f[x] : x \in DOMAIN f}

(***************************************************************************)
(* The journalists table and the handlers of app.py                        *)
(***************************************************************************)

\* cap on the length of a stored subjects string (keeps the model finite)
MaxSubjLen == 8

Row(n, k, a, p, an) ==
    [Namn |-> n, Kategori |-> k, Amnesomraden |-> a, Plattformar |-> p,
     Analys |-> an]

\* the table as imported: "P, E" and the legacy entry "E."
InitTable ==
    <<Row(<<"A">>, <<"k">>, <<"P", ",", " ", "E">>, <<"b">>, <<"e">>),
      Row(<<"B">>, <<>>, <<"E", ".">>, <<>>, <<>>)>>

\* rowids the UI may pass: the rows of the table and one stale identifier
Rowids == {1, 2, 3}

\* texts typed into "Nytt ämne"
NewInterests ==
    {<<>>, <<" ">>, <<"p">>, <<"e">>, <<" ", "K">>}

\* texts typed into the search box
SearchTerms == {<<"e">>, <<"K">>}

EmptyFrame == <<>>
EmptyCache == [full |-> FALSE, data |-> EmptyFrame]
NoWrite    == [rowid |-> 0, value |-> <<>>, warm |-> FALSE]

Op(kind, rowid, arg, outcome, first) ==
    [kind |-> kind, rowid |-> rowid, arg |-> arg, outcome |-> outcome,
     first |-> first]

\* SELECT rowid, * FROM journalists
SelectAll(tbl) == tbl

\* ... WHERE Ämnesområden LIKE '%term%' OR "Analys av Position" LIKE '%term%'
Like(text, term) == Contains(Lower(text), Lower(term))

SelectLike(tbl, term) ==
    LET hits == {r \in DOMAIN tbl :
                    Like(tbl[r].Amnesomraden, term) \/ Like(tbl[r].Analys, term)}
    IN  [r \in hits |-> tbl[r]]

\* new_interest.strip().lower() in [i.lower() for i in current.split(',')]
AlreadyListed(current, new_interest) ==
    Lower(Strip(new_interest)) \in {Lower(seg) : seg \in Range(Split(current))}

UpdatedInterestsUntrimmed(current, new_interest) ==
    current \o <<",", " ">> \o new_interest

\* f"{current_interests}, {new_interest.strip()}"
UpdatedInterests(current, new_interest) ==
    current \o <<",", " ">> \o Strip(new_interest)

UpdateStmtNoWhere(tbl, rowid, value) ==
    [r \in DOMAIN tbl |-> [tbl[r] EXCEPT !.Amnesomraden = value]]

\* UPDATE journalists SET Ämnesområden = ? WHERE rowid = ?
UpdateStmt(tbl, rowid, value) ==
    [tbl EXCEPT ![rowid].Amnesomraden = value]

ClearCacheForgotten(c) == c

\* get_all_journalists.clear()
ClearCache(c) == EmptyCache

AppInit ==
    /\ db = InitTable
    /\ cache = EmptyCache
    /\ lastOp = Op("none", 0, <<>>, "none", FALSE)
    /\ result = EmptyFrame
    /\ pending = {}
    /\ lastWrite = NoWrite

\* @st.cache_data(ttl=600) def get_all_journalists()
GetAllJournalists ==
    /\ \E ok \in BOOLEAN :
          LET ret == IF cache.full THEN cache.data
                     ELSE IF ok THEN SelectAll(db) ELSE EmptyFrame
              out == IF cache.full THEN "cached"
                     ELSE IF ok THEN "ok" ELSE "error"
          IN  /\ result' = ret
              /\ cache' = [full |-> TRUE, data |-> ret]
              /\ lastOp' = Op("scan", 0, <<>>, out, "scan" \in pending)
    /\ pending' = pending \ {"scan"}
    /\ UNCHANGED <<db, lastWrite>>

\* the ttl of the cache entry runs out
TtlExpire ==
    /\ cache.full
    /\ cache' = EmptyCache
    /\ lastOp' = Op("expire", 0, <<>>, "none", FALSE)
    /\ UNCHANGED <<db, result, pending, lastWrite>>

\* def search_journalists(search_term)
SearchJournalists ==
    /\ \E term \in SearchTerms, ok \in BOOLEAN :
          /\ result' = IF ok THEN SelectLike(db, term) ELSE EmptyFrame
          /\ lastOp' = Op("search", 0, term, IF ok THEN "ok" ELSE "error",
                          "search" \in pending)
    /\ pending' = pending \ {"search"}
    /\ UNCHANGED <<db, cache, lastWrite>>

\* def add_interest_to_journalist(rowid, new_interest)
AddInterest ==
    \E rowid \in Rowids, new_interest \in NewInterests, ok \in BOOLEAN :
        /\ result' = EmptyFrame
        /\ IF new_interest = <<>>
           THEN \* "if conn and new_interest" is false: nothing runs
                /\ lastOp' = Op("add", rowid, new_interest, "skipped", FALSE)
                /\ UNCHANGED <<db, cache, pending, lastWrite>>
           ELSE /\ cache' = ClearCache(cache)
                /\ IF ~ok
                   THEN /\ lastOp' = Op("add", rowid, new_interest, "dberror", FALSE)
                        /\ UNCHANGED <<db, pending, lastWrite>>
                   ELSE IF rowid \notin DOMAIN db
                   THEN /\ lastOp' = Op("add", rowid, new_interest, "notfound", FALSE)
                        /\ UNCHANGED <<db, pending, lastWrite>>
                   ELSE IF AlreadyListed(db[rowid].Amnesomraden, new_interest)
                   THEN /\ lastOp' = Op("add", rowid, new_interest, "exists", FALSE)
                        /\ UNCHANGED <<db, pending, lastWrite>>
                   ELSE LET updated ==
                                UpdatedInterests(db[rowid].Amnesomraden, new_interest)
                        IN  /\ Len(updated) <= MaxSubjLen
                            /\ db' = UpdateStmt(db, rowid, updated)
                            /\ lastOp' = Op("add", rowid, new_interest, "updated", FALSE)
                            /\ pending' = {"scan", "search"}
                            /\ lastWrite' = [rowid |-> rowid, value |-> updated,
                                             warm |-> cache.full]

Init ==
    /\ AppInit
    /\ pc = <<>> /\ sess = <<>> /\ cur = <<>> /\ lock = 0 /\ db0 = <<>>
    /\ subjIn = <<>> /\ tagsOut = {}
    /\ df = <<>> /\ net = <<>>
    /\ csv = <<>> /\ imported = "none"

NotApp == UNCHANGED <<concVars, parseVars, graphVars, impVars>>

Next ==
    \/ GetAllJournalists /\ NotApp
    \/ TtlExpire /\ NotApp
    \/ SearchJournalists /\ NotApp
    \/ AddInterest /\ NotApp

Spec == Init /\ [][Next]_vars

(***************************************************************************)
(* Properties of the handlers (specification Spec)                         *)
(***************************************************************************)

HasValue(frame, w) ==
    /\ w.rowid \in DOMAIN frame
    /\ frame[w.rowid].Amnesomraden = w.value

\* C1: the first get_all_journalists() and the first search_journalists(term)
\* after a committed UPDATE of a row return that row with the value written,
\* also when the cache held an unexpired entry at the time of the write
\* (a search returns the row when term occurs in the new value).
ReadYourWrites ==
    /\ (lastOp.kind = "scan" /\ lastOp.first /\ lastOp.outcome # "error")
          => HasValue(result, lastWrite)
    /\ (lastOp.kind = "search" /\ lastOp.first /\ lastOp.outcome = "ok"
          /\ Like(lastWrite.value, lastOp.arg))
          => HasValue(result, lastWrite)

ReadYourWritesWitness ==
    /\ lastOp.kind = "scan" /\ lastOp.first /\ lastOp.outcome = "ok"
    /\ lastWrite.warm
    /\ lastWrite.value # InitTable[lastWrite.rowid].Amnesomraden
    /\ HasValue(result, lastWrite)

\* C2: once add_interest_to_journalist(id, t) with trim(t) non-empty has
\* written t, the same call again reports that t already exists and leaves
\* the table as it is.
SecondAddAlreadyExists ==
    [][(/\ lastOp.kind = "add" /\ lastOp.outcome = "updated"
        /\ Strip(lastOp.arg) # <<>>
        /\ lastOp'.kind = "add" /\ lastOp'.rowid = lastOp.rowid
        /\ lastOp'.arg = lastOp.arg /\ lastOp'.outcome # "dberror")
       => (lastOp'.outcome = "exists" /\ db' = db)]_vars

\* the comparison the duplicate check is documented to make: each stored
\* segment trimmed and stripped of periods, the new tag trimmed, case ignored
ListedNormalized(current, new_interest) ==
    Lower(Strip(new_interest)) \in
        {Lower(RemovePeriods(Strip(seg))) : seg \in Range(Split(current))}

\* C3: an add whose trimmed tag equals, ignoring case, a stored segment after
\* that segment is trimmed and stripped of periods reports that the tag
\* already exists and changes nothing.
NormalizedDuplicateRejected ==
    [][(/\ lastOp'.kind = "add" /\ lastOp'.outcome # "dberror"
        /\ lastOp'.rowid \in DOMAIN db
        /\ Strip(lastOp'.arg) # <<>>
        /\ ListedNormalized(db[lastOp'.rowid].Amnesomraden, lastOp'.arg))
       => (lastOp'.outcome = "exists" /\ db' = db)]_vars

\* C4: an add whose tag is empty after trimming is rejected before the
\* duplicate check and changes no row.
EmptyTagRejected ==
    [][(lastOp'.kind = "add" /\ Strip(lastOp'.arg) = <<>>)
       => (lastOp'.outcome = "skipped" /\ db' = db)]_vars

ValidList(s) == \A seg \in Range(Split(s)) : Strip(seg) # <<>>

\* C5: every stored subjects string stays a valid comma-separated list: no
\* leading or trailing delimiter and no segment that is empty after trimming.
SubjectsAlwaysValid == \A r \in DOMAIN db : ValidList(db[r].Amnesomraden)

\* C6: a successful add sets the row's subjects to its previous text followed
\* by ", " and the trimmed tag, keeps the row's other columns, every other row
\* and the set of rowids; an add for a rowid the table lacks changes nothing.
AddEffectAndFrame ==
    [][lastOp'.kind = "add" =>
        LET id == lastOp'.rowid
        IN  /\ DOMAIN db' = DOMAIN db
            /\ lastOp'.outcome = "updated" =>
                 /\ id \in DOMAIN db
                 /\ db'[id].Amnesomraden =
                        db[id].Amnesomraden \o <<",", " ">> \o Strip(lastOp'.arg)
                 /\ db'[id].Namn = db[id].Namn
                 /\ db'[id].Kategori = db[id].Kategori
                 /\ db'[id].Plattformar = db[id].Plattformar
                 /\ db'[id].Analys = db[id].Analys
                 /\ \A r \in DOMAIN db \ {id} : db'[r] = db[r]
            /\ lastOp'.outcome # "updated" => db' = db
            /\ id \notin DOMAIN db => db' = db]_vars

AddEffectWitness ==
    /\ lastOp.kind = "add" /\ lastOp.outcome = "updated"
    /\ lastOp.arg = <<" ", "K">>
    /\ db[lastOp.rowid].Amnesomraden =
           InitTable[lastOp.rowid].Amnesomraden \o <<",", " ", "K">>

(***************************************************************************)
(* Two sessions running add_interest_to_journalist at the same time, each  *)
(* on its own SQLite connection (specification SpecConc).  The UPDATE      *)
(* takes the database write lock inside the implicit transaction and       *)
(* waits while another connection holds it; commit() publishes the row.    *)
(***************************************************************************)

Sessions == {1, 2}
NoSession == 0

Local(read, upd, out) == [read |-> read, upd |-> upd, out |-> out]

\* the table add_interest_to_journalist(rowid, new_interest) leaves when it
\* runs alone and the store raises no error
AddResult(tbl, rowid, new_interest) ==
    IF new_interest = <<>> \/ rowid \notin DOMAIN tbl THEN tbl
    ELSE IF AlreadyListed(tbl[rowid].Amnesomraden, new_interest) THEN tbl
    ELSE UpdateStmt(tbl, rowid,
                    UpdatedInterests(tbl[rowid].Amnesomraden, new_interest))

ConcInit ==
    /\ db = InitTable
    /\ db0 = InitTable
    /\ cache = [full |-> TRUE, data |-> SelectAll(InitTable)]
    /\ lastOp = Op("none", 0, <<>>, "none", FALSE)
    /\ result = EmptyFrame
    /\ pending = {}
    /\ lastWrite = NoWrite
    /\ pc = [s \in Sessions |-> "start"]
    /\ sess \in [Sessions -> [rowid : Rowids, new_interest : NewInterests]]
    /\ cur = [s \in Sessions |-> Local(<<>>, <<>>, "none")]
    /\ lock = NoSession
    /\ subjIn = <<>> /\ tagsOut = {}
    /\ df = <<>> /\ net = <<>>
    /\ csv = <<>> /\ imported = "none"

\* conn = get_db_connection(); if conn and new_interest:
Connect(s) ==
    /\ pc[s] = "start"
    /\ IF sess[s].new_interest = <<>>
       THEN /\ pc' = [pc EXCEPT ![s] = "done"]
            /\ cur' = [cur EXCEPT ![s].out = "skipped"]
       ELSE /\ pc' = [pc EXCEPT ![s] = "select"]
            /\ cur' = cur
    /\ UNCHANGED <<db, cache, lock, sess, db0>>

\* cursor.execute("SELECT ..."); result = cursor.fetchone()
Select(s) ==
    /\ pc[s] = "select"
    /\ \E ok \in BOOLEAN :
          IF ~ok
          THEN /\ pc' = [pc EXCEPT ![s] = "close"]
               /\ cur' = [cur EXCEPT ![s].out = "dberror"]
          ELSE IF sess[s].rowid \notin DOMAIN db
          THEN /\ pc' = [pc EXCEPT ![s] = "close"]
               /\ cur' = [cur EXCEPT ![s].out = "notfound"]
          ELSE /\ pc' = [pc EXCEPT ![s] = "update"]
               /\ cur' = [cur EXCEPT ![s].read = db[sess[s].rowid].Amnesomraden]
    /\ UNCHANGED <<db, cache, lock, sess, db0>>

\* the duplicate check, updated_interests and cursor.execute("UPDATE ...")
Update(s) ==
    /\ pc[s] = "update"
    /\ IF AlreadyListed(cur[s].read, sess[s].new_interest)
       THEN /\ pc' = [pc EXCEPT ![s] = "close"]
            /\ cur' = [cur EXCEPT ![s].out = "exists"]
            /\ lock' = lock
       ELSE /\ lock = NoSession
            /\ lock' = s
            /\ pc' = [pc EXCEPT ![s] = "commit"]
            /\ cur' = [cur EXCEPT ![s].upd =
                          UpdatedInterests(cur[s].read, sess[s].new_interest)]
    /\ UNCHANGED <<db, cache, sess, db0>>

\* conn.commit()
Commit(s) ==
    /\ pc[s] = "commit"
    /\ lock = s
    /\ db' = UpdateStmt(db, sess[s].rowid, cur[s].upd)
    /\ lock' = NoSession
    /\ pc' = [pc EXCEPT ![s] = "close"]
    /\ cur' = [cur EXCEPT ![s].out = "updated"]
    /\ UNCHANGED <<cache, sess, db0>>

\* finally: conn.close(); get_all_journalists.clear()
Close(s) ==
    /\ pc[s] = "close"
    /\ cache' = ClearCache(cache)
    /\ pc' = [pc EXCEPT ![s] = "done"]
    /\ UNCHANGED <<db, lock, sess, cur, db0>>

ConcRest == UNCHANGED <<lastOp, result, pending, lastWrite,
                        parseVars, graphVars, impVars>>

ConcNext ==
    \/ \E s \in Sessions : Connect(s) /\ ConcRest
    \/ \E s \in Sessions : Select(s) /\ ConcRest
    \/ \E s \in Sessions : Update(s) /\ ConcRest
    \/ \E s \in Sessions : Commit(s) /\ ConcRest
    \/ \E s \in Sessions : Close(s) /\ ConcRest

SpecConc == ConcInit /\ [][ConcNext]_vars

AllDone == \A s \in Sessions : pc[s] = "done"

\* the call of session s as the sequential run sees it: a call the store
\* failed with an error leaves the table alone
Ran(tbl, s) ==
    IF cur[s].out = "dberror" THEN tbl
    ELSE AddResult(tbl, sess[s].rowid, sess[s].new_interest)

\* C7: two add calls on different rowids, interleaved in any order, leave the
\* table that running one call after the other leaves.
DifferentRowsSerializable ==
    (AllDone /\ sess[1].rowid # sess[2].rowid)
        => (db = Ran(Ran(db0, 1), 2) /\ db = Ran(Ran(db0, 2), 1))

DifferentRowsWitness ==
    /\ AllDone
    /\ sess[1].rowid = 1 /\ sess[2].rowid = 2
    /\ cur[1].out = "updated" /\ cur[2].out = "updated"
    /\ db[1].Amnesomraden = db0[1].Amnesomraden \o <<",", " ">> \o Strip(sess[1].new_interest)
    /\ db[2].Amnesomraden = db0[2].Amnesomraden \o <<",", " ">> \o Strip(sess[2].new_interest)

(***************************************************************************)
(* The tag clean-up of generate_network_visualization on one subjects      *)
(* string (specification SpecParse)                                        *)
(***************************************************************************)

\* longest subjects string enumerated for the clean-up
MaxParseLen == 4

ParseChars == {"P", "e", " ", ",", "."}

\* "P, E.,  M "
ParseExample == <<"P", ",", " ", "E", ".", ",", " ", " ", "M", " ">>

ParseInputs == StringsUpTo(ParseChars, MaxParseLen) \cup {ParseExample}

\* [s.strip().replace('.', '') for s in sub_list.split(',') if s.strip()]
RECURSIVE CleanSegments(_)
CleanSegments(segs) ==
    IF segs = <<>> THEN <<>>
    ELSE (IF Strip(Head(segs)) # <<>>
          THEN <<RemovePeriods(Strip(Head(segs)))>>
          ELSE <<>>) \o CleanSegments(Tail(segs))

CleanedSubjects(sub_list) == CleanSegments(Split(sub_list))

ParseInit ==
    /\ subjIn \in ParseInputs
    /\ tagsOut = [ran |-> FALSE, tags |-> {}]
    /\ db = <<>> /\ cache = EmptyCache
    /\ lastOp = Op("none", 0, <<>>, "none", FALSE)
    /\ result = EmptyFrame /\ pending = {} /\ lastWrite = NoWrite
    /\ pc = <<>> /\ sess = <<>> /\ cur = <<>> /\ lock = NoSession /\ db0 = <<>>
    /\ df = <<>> /\ net = <<>>
    /\ csv = <<>> /\ imported = "none"

\* subjects.update(cleaned_subjects) for one sub_list
CleanSubjects ==
    /\ ~tagsOut.ran
    /\ tagsOut' = [ran |-> TRUE, tags |-> Range(CleanedSubjects(subjIn))]
    /\ UNCHANGED <<subjIn, appVars, concVars, graphVars, impVars>>

ParseNext == CleanSubjects

SpecParse == ParseInit /\ [][ParseNext]_vars

\* C8: the cleaned tag set of any subjects string has no empty member and no
\* member containing a comma; "P, E.,  M " gives exactly {"P", "E", "M"}.
CleanTagsWellFormed ==
    tagsOut.ran =>
        /\ <<>> \notin tagsOut.tags
        /\ \A t \in tagsOut.tags : \A i \in 1..Len(t) : t[i] # ","
        /\ subjIn = ParseExample => tagsOut.tags = {<<"P">>, <<"E">>, <<"M">>}

(***************************************************************************)
(* generate_network_visualization (specification SpecGraph)                *)
(***************************************************************************)

\* most rows of a DataFrame handed to the graph builder
MaxRecs == 2

GraphNames == {<<"A">>, <<"B">>, <<"X">>}

GraphSubjects ==
    {<<"X">>, <<"X", ",", " ", "Y">>, <<"X", ",", "X">>, <<"B">>, <<"A">>,
     <<"X", ",", ".">>}

GraphFrames ==
    UNION {[1..k -> {Row(n, <<>>, a, <<>>, <<>>) :
                        n \in GraphNames, a \in GraphSubjects}] : k \in 1..MaxRecs}

EmptyNet == [ran |-> FALSE, nodes |-> <<>>, edges |-> <<>>]

\* Network.add_node: a node whose id the network already has is not added
AddNode(n, id, color) ==
    IF \E i \in 1..Len(n.nodes) : n.nodes[i].id = id THEN n
    ELSE [n EXCEPT !.nodes = Append(@, [id |-> id, color |-> color])]

\* Network.add_edge on an undirected network: an edge between the same two
\* nodes, in either direction, is not added again
AddEdge(n, source, to) ==
    IF \E i \in 1..Len(n.edges) :
          \/ (n.edges[i].from = source /\ n.edges[i].to = to)
          \/ (n.edges[i].from = to /\ n.edges[i].to = source)
    THEN n
    ELSE [n EXCEPT !.edges = Append(@, [from |-> source, to |-> to])]

RECURSIVE AddNodes(_, _, _)
AddNodes(n, ids, color) ==
    IF ids = <<>> THEN n
    ELSE AddNodes(AddNode(n, Head(ids), color), Tail(ids), color)

\* iteration over the Python set `subjects`: some order
RECURSIVE SetToSeq(_)
SetToSeq(S) ==
    IF S = {} THEN <<>>
    ELSE LET x == CHOOSE y \in S : TRUE IN <<x>> \o SetToSeq(S \ {x})

\* df['Namn'].unique(): the names in order of first appearance
RECURSIVE Unique(_, _)
Unique(names, seen) ==
    IF names = <<>> THEN <<>>
    ELSE IF Head(names) \in seen THEN Unique(Tail(names), seen)
    ELSE <<Head(names)>> \o Unique(Tail(names), seen \cup {Head(names)})

AllSubjects(frame) ==
    UNION {Range(CleanedSubjects(frame[i].Amnesomraden)) : i \in DOMAIN frame}

RECURSIVE AddEdgesOfRow(_, _, _)
AddEdgesOfRow(n, name, tags) ==
    IF tags = <<>> THEN n
    ELSE AddEdgesOfRow(AddEdge(n, name, Head(tags)), name, Tail(tags))

RECURSIVE AddEdgesOfRows(_, _)
AddEdgesOfRows(n, rows) ==
    IF rows = <<>> THEN n
    ELSE AddEdgesOfRows(
             AddEdgesOfRow(n, Head(rows).Namn,
                           CleanedSubjects(Head(rows).Amnesomraden)),
             Tail(rows))

BuildNetwork(frame) ==
    LET journalists == Unique([i \in DOMAIN frame |-> frame[i].Namn], {})
        withJ == AddNodes(EmptyNet, journalists, "journalist")
        withS == AddNodes(withJ, SetToSeq(AllSubjects(frame)), "subject")
    IN  [AddEdgesOfRows(withS, frame) EXCEPT !.ran = TRUE]

GraphInit ==
    /\ df \in GraphFrames
    /\ net = EmptyNet
    /\ db = <<>> /\ cache = EmptyCache
    /\ lastOp = Op("none", 0, <<>>, "none", FALSE)
    /\ result = EmptyFrame /\ pending = {} /\ lastWrite = NoWrite
    /\ pc = <<>> /\ sess = <<>> /\ cur = <<>> /\ lock = NoSession /\ db0 = <<>>
    /\ subjIn = <<>> /\ tagsOut = {}
    /\ csv = <<>> /\ imported = "none"

\* def generate_network_visualization(df)
GenerateNetwork ==
    /\ ~net.ran
    /\ net' = BuildNetwork(df)
    /\ UNCHANGED <<df, appVars, concVars, parseVars, impVars>>

GraphNext == GenerateNetwork

SpecGraph == GraphInit /\ [][GraphNext]_vars

\* parseTags as the tag model defines it: normalized, non-empty segments
ParsedTags(subjects) ==
    {RemovePeriods(Strip(seg)) : seg \in Range(Split(subjects))} \ {<<>>}

NodesOf(color) == {i \in 1..Len(net.nodes) : net.nodes[i].color = color}

Joins(e, name, tag) ==
    \/ (e.from = name /\ e.to = tag)
    \/ (e.from = tag /\ e.to = name)

\* C9: the graph has exactly one journalist node per distinct name, exactly
\* one subject node per distinct tag and exactly one edge per distinct
\* (name, tag) pair.
GraphHasSetSemantics ==
    net.ran =>
        LET names == {df[i].Namn : i \in DOMAIN df}
            tags  == UNION {ParsedTags(df[i].Amnesomraden) : i \in DOMAIN df}
            pairs == UNION {{<<df[i].Namn, t>> : t \in ParsedTags(df[i].Amnesomraden)} :
                              i \in DOMAIN df}
        IN  /\ {net.nodes[i].id : i \in NodesOf("journalist")} = names
            /\ Cardinality(NodesOf("journalist")) = Cardinality(names)
            /\ {net.nodes[i].id : i \in NodesOf("subject")} = tags
            /\ Cardinality(NodesOf("subject")) = Cardinality(tags)
            /\ Len(net.edges) = Cardinality(pairs)
            /\ \A p \in pairs :
                  Cardinality({i \in 1..Len(net.edges) :
                                  Joins(net.edges[i], p[1], p[2])}) = 1

(***************************************************************************)
(* create_database_from_csv (specification SpecImport)                     *)
(***************************************************************************)

\* most data rows of an enumerated CSV source
MaxCsvRows == 3

\* raw text of the Namn and Ämnesområden cells of a CSV line
CsvNames    == {<<>>, <<"A">>, <<" ">>}
CsvSubjects == {<<>>, <<"X">>, <<"N", "A">>}

CsvLine(n, a) == Row(n, <<"k">>, a, <<>>, <<"e">>)

CsvLines == {CsvLine(n, a) : n \in CsvNames, a \in CsvSubjects}

\* one line without a name, three complete lines
CsvExample ==
    <<CsvLine(<<>>, <<"X">>), CsvLine(<<"A">>, <<"X">>),
      CsvLine(<<" ">>, <<"X">>), CsvLine(<<"A">>, <<"X">>)>>

CsvSources ==
    {[exists |-> e, columns |-> c, lines |-> l] :
        e \in BOOLEAN, c \in BOOLEAN,
        l \in StringsUpTo(CsvLines, MaxCsvRows) \cup {CsvExample}}

\* pd.read_csv: an empty cell and the default NA markers are read as NaN
NaMarkers == {<<>>, <<"N", "A">>}

ReadCell(raw) == [na |-> raw \in NaMarkers, text |-> IF raw \in NaMarkers THEN <<>> ELSE raw]

ReadCsv(lines) ==
    [i \in 1..Len(lines) |->
        [Namn |-> ReadCell(lines[i].Namn),
         Kategori |-> ReadCell(lines[i].Kategori),
         Amnesomraden |-> ReadCell(lines[i].Amnesomraden),
         Plattformar |-> ReadCell(lines[i].Plattformar),
         Analys |-> ReadCell(lines[i].Analys)]]

\* df.dropna(subset=['Namn', 'Ämnesområden'], inplace=True)
DropNa(frame) ==
    SelectSeq(frame, LAMBDA r : ~r.Namn.na /\ ~r.Amnesomraden.na)

\* the rows as stored: a NaN cell becomes NULL, written as the empty text
Stored(frame) ==
    [i \in 1..Len(frame) |->
        Row(frame[i].Namn.text, frame[i].Kategori.text,
            frame[i].Amnesomraden.text, frame[i].Plattformar.text,
            frame[i].Analys.text)]

ToSqlAppend(old, frame) == old \o Stored(frame)

\* df.to_sql(table_name, conn, if_exists='replace', index=False)
ToSql(old, frame) == Stored(frame)

ImportInit ==
    /\ db \in {EmptyFrame, InitTable}
    /\ db0 = db
    /\ csv \in CsvSources
    /\ imported = "none"
    /\ cache = EmptyCache
    /\ lastOp = Op("none", 0, <<>>, "none", FALSE)
    /\ result = EmptyFrame /\ pending = {} /\ lastWrite = NoWrite
    /\ pc = <<>> /\ sess = <<>> /\ cur = <<>> /\ lock = NoSession
    /\ subjIn = <<>> /\ tagsOut = {}
    /\ df = <<>> /\ net = <<>>

\* def create_database_from_csv(csv_filepath, db_filepath)
CreateDatabaseFromCsv ==
    /\ imported = "none"
    /\ IF ~csv.exists
       THEN /\ imported' = "nofile"
            /\ db' = db
       ELSE IF ~csv.columns
       THEN \* dropna raises KeyError: caught, nothing written
            /\ imported' = "error"
            /\ db' = db
       ELSE /\ imported' = "done"
            /\ db' = ToSql(db, DropNa(ReadCsv(csv.lines)))
    /\ UNCHANGED <<csv, db0, cache, lastOp, result, pending, lastWrite,
                   pc, sess, cur, lock, parseVars, graphVars>>

ImportNext == CreateDatabaseFromCsv

SpecImport == ImportInit /\ [][ImportNext]_vars

\* a cell that holds no value: empty, or one of the markers read_csv takes
\* for a missing value
Missing(raw) == raw = <<>> \/ raw = <<"N", "A">>

Complete(line) == ~Missing(line.Namn) /\ ~Missing(line.Amnesomraden)

\* C10: after a completed import the table holds exactly the source lines
\* that have both a name and a subjects value, in source order, and none of
\* the rows it held before.
ImportReplaces ==
    imported = "done" =>
        /\ Len(db) = Cardinality({i \in 1..Len(csv.lines) : Complete(csv.lines[i])})
        /\ \A i \in 1..Len(db) :
              /\ db[i].Namn # <<>> /\ db[i].Amnesomraden # <<>>
              /\ \E j \in i..Len(csv.lines) :
                    /\ Complete(csv.lines[j])
                    /\ Cardinality({k \in 1..j : Complete(csv.lines[k])}) = i
                    /\ db[i].Namn = csv.lines[j].Namn
                    /\ db[i].Amnesomraden = csv.lines[j].Amnesomraden
                    /\ db[i].Kategori = csv.lines[j].Kategori
                    /\ db[i].Analys = csv.lines[j].Analys

ImportReplacesWitness ==
    /\ imported = "done"
    /\ db0 = InitTable
    /\ csv.lines = CsvExample
    /\ Len(db) = 3

====
